---- MODULE Spec2Model ----
(***************************************************************************)
(* Deployment / staging pipeline of the satellite wallpaper repository:    *)
(* config_loader.py (canonicalize, build_view_key) and deploy-wallpaper.py *)
(* (find_parent_dir_for_key, copy_or_link, stage_from_latest_run,          *)
(* deploy_latest_frames, main).                                            *)
(*                                                                         *)
(* Strings are sequences of one-character strings.  A character that is    *)
(* not ASCII is written by its code point: "u00B5" is the micro sign,      *)
(* "u03BC" the Greek small mu, "u00E9" e-acute, "u0663" Arabic-Indic three *)
(* and "u00B0" the degree sign.  A file name is a sequence of name tokens. *)
(***************************************************************************)
EXTENDS Integers, Sequences, FiniteSets, TLC

VARIABLES
    canon,      \* canonicalize applied once and twice to an input string
    locate,     \* one call of find_parent_dir_for_key
    call,       \* one call of another function of the pipeline, with its arguments
    views,      \* views_config.json: the configured views, in order
    parents,    \* output root: per-view parent folder -> batches and staging
    projects,   \* Wallpaper Engine project folder -> materials and manifest
    runtime,    \* the options effective_opts resolves in this run, per view key
    now,        \* filesystem clock, the source of modification times
    pc,         \* main(): "idle", "running", "done" or "crashed"
    idx,        \* main(): position of the for loop in views
    report,     \* main(): what was printed for each view attempted in this run
    runs,       \* how many times main() was started
    nfaults,    \* how many faults the environment has injected
    ev          \* the last step taken: which handler ran, on what, and its outcome

vars == <<canon, locate, call, views, parents, projects, runtime, now, pc, idx, report, runs, nfaults, ev>>

(***************************************************************************)
(* Bounds of the model.                                                    *)
(***************************************************************************)
MaxLen == 3          \* longest input string of canonicalize
MaxChildren == 3     \* most entries of the output root in a lookup
MaxBatches == 2      \* most batches acquired, all parent folders together
MaxRuns == 2         \* most runs of main()
MaxFaults == 1       \* most faults of the environment in one behaviour

(***************************************************************************)
(* Generic helpers.                                                        *)
(***************************************************************************)
Range(s) == {s[i] : i \in 1..Len(s)}

SeqsUpTo(S, n) == UNION {[1..k -> S] : k \in 0..n}

Max(a, b) == IF a >= b THEN a ELSE b

(***************************************************************************)
(* config_loader.py: canonicalize and build_view_key.                      *)
(***************************************************************************)
AsciiAlnum == {"G", "H", "I", "c", "m", "5"}

\* Characters outside ASCII that Python's unicode-aware \w matches: letters
\* (the micro sign and the Greek mu are letters too) and digits.
UnicodeWord == {"u00B5", "u03BC", "u00E9", "u0663"}

\* Characters that \w does not match: whitespace and symbols.
NonWord == {" ", "/", "u00B0"}

Chars == AsciiAlnum \cup {"_", "-"} \cup UnicodeWord \cup NonWord

\* str.replace(old, new) for a one-character old and new.
Replace(text, old, new) ==
    [i \in 1..Len(text) |-> IF text[i] = old THEN new ELSE text[i]]

\* The character class [^\w\-_] of the regular expression: what re.sub removes.
Stripped(c) == ~(c \in AsciiAlnum \cup UnicodeWord \cup {"_", "-"})

\* re.sub(r'[^\w\-_]', '', text): every match is removed (count = 0).
RECURSIVE ReSubAll(_)
ReSubAll(text) ==
    IF text = <<>> THEN <<>>
    ELSE IF Stripped(Head(text)) THEN ReSubAll(Tail(text))
         ELSE <<Head(text)>> \o ReSubAll(Tail(text))

\* A slip of re.sub's count argument: only the first match is removed.
RECURSIVE ReSubFirst(_)
ReSubFirst(text) ==
    IF text = <<>> THEN <<>>
    ELSE IF Stripped(Head(text)) THEN Tail(text)
         ELSE <<Head(text)>> \o ReSubFirst(Tail(text))

canonicalizeStripsOnce(text) ==
    ReSubFirst(Replace(Replace(Replace(text, "u00B5", "m"), "u03BC", "m"), " ", "_"))

canonicalize(text) ==
    ReSubAll(Replace(Replace(Replace(text, "u00B5", "m"), "u03BC", "m"), " ", "_"))

ViewFields == {"sat", "sec", "im"}

\* view['sat'], view['sec'], view['im'] raise KeyError on a missing field.
build_view_key_raises(view) == ~(ViewFields \subseteq DOMAIN view)

build_view_key(view) ==
    canonicalize(view["sat"] \o <<"_">> \o view["sec"] \o <<"_">> \o view["im"])

(***************************************************************************)
(* File names, directories and files.  A directory is a function from the  *)
(* names of its entries to files; a file has its bytes and the inode that  *)
(* holds them (names that are hard links of one another share the inode).  *)
(***************************************************************************)
DigitTok == <<"0", "1", "2", "3", "4", "5", "6", "7", "8", "9">>

RECURSIVE Decimal(_)
Decimal(i) ==
    IF i < 10 THEN <<DigitTok[i + 1]>>
    ELSE Decimal(i \div 10) \o <<DigitTok[(i % 10) + 1]>>

RECURSIVE PadZero(_, _)
PadZero(digits, width) ==
    IF Len(digits) >= width THEN digits ELSE PadZero(<<"0">> \o digits, width)

\* f"frame_{i:03d}.png"
FrameName(i) == <<"frame_">> \o PadZero(Decimal(i), 3) \o <<".png">>

ManifestName == <<"manifest", ".json">>

CurrentManifestName == <<"current_manifest", ".json">>

StagingName == <<"staging">>

\* glob("*.png")
IsPng(name) == Len(name) >= 1 /\ name[Len(name)] = ".png"

\* glob("frame_*.png")
IsFramePng(name) == Len(name) >= 2 /\ name[1] = "frame_" /\ name[Len(name)] = ".png"

\* Order of the name tokens, that of the first character that tells them apart:
\* '.' < '0'..'9' < 'a' < 'b' < 'c' < 'f' < 'm' < 'p' < 's'.
TokRank(t) ==
    CASE t = ".json" -> 0
      [] t = ".png" -> 1
      [] t \in Range(DigitTok) -> 2 + (CHOOSE d \in 0..9 : DigitTok[d + 1] = t)
      [] t = "a" -> 12
      [] t = "b" -> 13
      [] t = "current_manifest" -> 14
      [] t = "frame_" -> 15
      [] t = "manifest" -> 16
      [] t = "preview" -> 17
      [] t = "scene" -> 18
      [] OTHER -> 19

\* Path.__lt__ on two names of one directory: string order.
RECURSIVE NameLess(_, _)
NameLess(a, b) ==
    IF a = <<>> THEN b # <<>>
    ELSE IF b = <<>> THEN FALSE
    ELSE IF Head(a) = Head(b) THEN NameLess(Tail(a), Tail(b))
    ELSE TokRank(Head(a)) < TokRank(Head(b))

\* sorted(paths)
RECURSIVE SortedNames(_)
SortedNames(S) ==
    IF S = {} THEN <<>>
    ELSE LET least == CHOOSE n \in S : \A o \in S \ {n} : NameLess(n, o)
         IN  <<least>> \o SortedNames(S \ {least})

EmptyDir == [n \in {} |-> [bytes |-> <<>>, ino |-> <<>>]]

File(bytes, ino) == [bytes |-> bytes, ino |-> ino]

\* Path.unlink() of every name of the set.
Unlink(dir, names) == [n \in DOMAIN dir \ names |-> dir[n]]

\* A new directory entry.
Put(dir, name, file) ==
    [n \in DOMAIN dir \cup {name} |-> IF n = name THEN file ELSE dir[n]]

\* A write into an inode shows under every name linked to it.
WriteInode(dir, ino, bytes) ==
    [n \in DOMAIN dir |-> IF dir[n].ino = ino THEN File(bytes, ino) ELSE dir[n]]

\* The names and bytes of a directory's entries, without the inodes.
Content(dir) == [n \in DOMAIN dir |-> dir[n].bytes]

(***************************************************************************)
(* deploy-wallpaper.py: find_parent_dir_for_key.  The output root is the   *)
(* sequence, in listing order, of its entries [name, isdir].               *)
(***************************************************************************)
NotFound == [found |-> FALSE, name |-> <<>>]

Found(name) == [found |-> TRUE, name |-> name]

ChildDirs(root) == {i \in 1..Len(root) : root[i].isdir}

\* direct = output_root / canonical_key; direct.is_dir()
DirectIsDir(root, key) == \E i \in ChildDirs(root) : root[i].name = key


\* A scan that compares the raw child name with the key.
find_parent_dir_raw_names(root, key) ==
    IF DirectIsDir(root, key) THEN Found(key)
    ELSE LET hits == {i \in ChildDirs(root) : root[i].name = key}
         IN  IF hits = {} THEN NotFound
             ELSE Found(root[CHOOSE i \in hits : \A j \in hits : i <= j].name)

\* A scan that settles for the first child directory when no name matches.
find_parent_dir_first_child(root, key) ==
    IF DirectIsDir(root, key) THEN Found(key)
    ELSE LET hits == {i \in ChildDirs(root) : canonicalize(root[i].name) = key}
             pool == IF hits = {} THEN ChildDirs(root) ELSE hits
         IN  IF pool = {} THEN NotFound
             ELSE Found(root[CHOOSE i \in pool : \A j \in pool : i <= j].name)

\* The lookup of deploy_latest_frames: the directory named by the key, else the
\* first child directory in listing order whose name canonicalizes to the key.
find_parent_dir_for_key(root, key) ==
    IF DirectIsDir(root, key) THEN Found(key)
    ELSE LET hits == {i \in ChildDirs(root) : canonicalize(root[i].name) = key}
         IN  IF hits = {} THEN NotFound
             ELSE Found(root[CHOOSE i \in hits : \A j \in hits : i <= j].name)

(***************************************************************************)
(* deploy-wallpaper.py: try_hardlink, copy_or_link and shutil.copy2.       *)
(* A directory under work is [batches, files]: files are the entries of    *)
(* the directory written to, batches the batch folders of the same parent  *)
(* (a write through a hard link would show there).                         *)
(***************************************************************************)
\* shutil.copy2(src, dst): an existing dst is opened and rewritten in place,
\* a missing one is created on an inode of its own.
Copy2(st, bytes, dst, owner) ==
    IF dst \in DOMAIN st.files
    THEN LET ino == st.files[dst].ino
         IN  [batches |-> [b \in DOMAIN st.batches |->
                              [st.batches[b] EXCEPT !.files = WriteInode(@, ino, bytes)]],
              files |-> WriteInode(st.files, ino, bytes)]
    ELSE [st EXCEPT !.files = Put(@, dst, File(bytes, <<owner, 0, dst>>))]

\* try_hardlink: dst is unlinked when it exists, then os.link(src, dst); the OSError
\* of a failed link is caught and reported as False.
try_hardlink(st, src, dst, linkable) ==
    LET cleared == [st EXCEPT !.files = Unlink(@, {dst})]
    IN  IF linkable
        THEN [ok |-> TRUE, st |-> [cleared EXCEPT !.files = Put(@, dst, src)]]
        ELSE [ok |-> FALSE, st |-> cleared]

\* A link attempt that does not look at hold_mode.
link_attempt_any_mode(st, src, dst, use_hardlink, linkable) ==
    LET r == try_hardlink(st, src, dst, linkable) IN [done |-> r.ok, st |-> r.st]

\* copy_or_link up to its call of shutil.copy2: [done, st]; done says that the hard
\* link was made and no copy is needed.
link_attempt(st, src, dst, use_hardlink, linkable) ==
    IF use_hardlink
    THEN LET r == try_hardlink(st, src, dst, linkable) IN [done |-> r.ok, st |-> r.st]
    ELSE [done |-> FALSE, st |-> st]

\* copy_or_link(src, dst, use_hardlink) when shutil.copy2 does not raise.
copy_or_link(st, src, dst, use_hardlink, linkable) ==
    LET a == link_attempt(st, src, dst, use_hardlink, linkable)
    IN  IF a.done THEN a.st ELSE Copy2(a.st, src.bytes, dst, "staging")

(***************************************************************************)
(* deploy-wallpaper.py: stage_from_latest_run.  A parent folder is         *)
(* [batches, staging, last]: batches is the sequence, in listing order, of *)
(* its batch folders [name, id, mtime, files]; staging is the folder named *)
(* staging, [exists, mtime, files]; last remembers the inputs of the last  *)
(* completed call.  fps and hold_last_sec are in tenths.                   *)
(***************************************************************************)
\* round(n / d) of Python 3: to the nearest integer, a tie to the even one.
RoundHalfEven(n, d) ==
    LET a == IF n < 0 THEN -n ELSE n
        q == a \div d
        r == a % d
        m == IF 2 * r > d \/ (2 * r = d /\ q % 2 = 1) THEN q + 1 ELSE q
    IN  IF n < 0 THEN -m ELSE m

\* hold_frames without the rounding: the whole frames of the product.
HoldFramesTruncated(hold_last_sec, fps) ==
    Max(0, (hold_last_sec * Max(1, fps)) \div 100)

\* hold_frames = max(0, int(round(hold_last_sec * max(0.1, float(fps)))))
HoldFrames(hold_last_sec, fps) ==
    Max(0, RoundHalfEven(hold_last_sec * Max(1, fps), 100))

\* parent_dir.iterdir(), the directories: the batches and, when it exists, staging.
SubDirs(pd) ==
    pd.batches \o
    (IF pd.staging.exists
     THEN <<[name |-> StagingName, id |-> 0, mtime |-> pd.staging.mtime,
             files |-> pd.staging.files]>>
     ELSE <<>>)

\* A listing filter that forgets to leave out the folder named staging.
AllRunsWithStaging(pd) == SubDirs(pd)

\* all_runs = [d for d in parent_dir.iterdir() if d.is_dir() and d.name != 'staging']
AllRuns(pd) == SelectSeq(SubDirs(pd), LAMBDA d : d.name # StagingName)

\* The first directory listed, whatever its modification time.
LatestRunFirstListed(all_runs) == all_runs[1]

\* A selection that falls back to the newest batch that holds PNG files.
LatestRunWithFrames(all_runs) ==
    LET full == {i \in 1..Len(all_runs) : \E n \in DOMAIN all_runs[i].files : IsPng(n)}
        pool == IF full = {} THEN 1..Len(all_runs) ELSE full
    IN  all_runs[CHOOSE i \in pool :
                    \A j \in pool : \/ all_runs[j].mtime < all_runs[i].mtime
                                    \/ all_runs[j].mtime = all_runs[i].mtime /\ i <= j]

\* max(all_runs, key=lambda d: d.stat().st_mtime): the first of the greatest.
LatestRun(all_runs) ==
    all_runs[CHOOSE i \in 1..Len(all_runs) :
            /\ \A j \in 1..Len(all_runs) : all_runs[j].mtime <= all_runs[i].mtime
            /\ \A j \in 1..(i - 1) : all_runs[j].mtime < all_runs[i].mtime]

\* No reset of the staged frames.
CleanStagingNothing(files) == files

\* for p in staging_dir.glob("frame_*.png"): p.unlink()
\* (every unlink is taken to succeed; the except: pass of a failing one is left out)
CleanStaging(files) == Unlink(files, {n \in DOMAIN files : IsFramePng(n)})

\* The copies with the held frames taken from the first staged frame.
StageOpsHoldFirst(source_files, hold_frames) ==
    [c \in 1..(Len(source_files) + (IF source_files = <<>> THEN 0 ELSE hold_frames)) |->
        IF c <= Len(source_files)
        THEN [from |-> "batch", src |-> source_files[c], dst |-> FrameName(c - 1)]
        ELSE [from |-> "staging", src |-> FrameName(0), dst |-> FrameName(c - 1)]]

\* The copies of stage_from_latest_run in the order it makes them: frame i from the
\* i-th source file, then hold frame k from the staged last frame.
StageOps(source_files, hold_frames) ==
    [c \in 1..(Len(source_files) + (IF source_files = <<>> THEN 0 ELSE hold_frames)) |->
        IF c <= Len(source_files)
        THEN [from |-> "batch", src |-> source_files[c], dst |-> FrameName(c - 1)]
        ELSE [from |-> "staging", src |-> FrameName(Len(source_files) - 1),
              dst |-> FrameName(c - 1)]]

\* The loops of copy_or_link calls from call c on.  failAt is the call whose
\* shutil.copy2 raises (0: none does).  The result is [st, raised].
RECURSIVE RunStageOps(_, _, _, _)
RunStageOps(st, ops, c, env) ==
    IF c > Len(ops) THEN [st |-> st, raised |-> FALSE]
    ELSE LET op == ops[c]
             src == IF op.from = "batch"
                    THEN st.batches[env.latest].files[op.src]
                    ELSE st.files[op.src]
             a == link_attempt(st, src, op.dst, env.use_hardlink, env.linkable)
         IN  IF a.done THEN RunStageOps(a.st, ops, c + 1, env)
             ELSE IF env.failAt = c THEN [st |-> a.st, raised |-> TRUE]
             ELSE RunStageOps(Copy2(a.st, src.bytes, op.dst, "staging"), ops, c + 1, env)

\* The inputs of a call that idempotence speaks of.
StageInputs(pd, fps, hold_last_sec, hold_mode) ==
    [called |-> TRUE, nbatches |-> Len(pd.batches), fps |-> fps,
     hold_last_sec |-> hold_last_sec, hold_mode |-> hold_mode]

NoStageInputs ==
    [called |-> FALSE, nbatches |-> 0, fps |-> 0, hold_last_sec |-> 0, hold_mode |-> ""]

\* stage_from_latest_run(parent_dir, fps, hold_last_sec, hold_mode) at time t, where
\* the environment lets hard links be made or not (linkable) and fault names the
\* shutil.copy2 that raises, if one does.  The result is [pd, outcome, batch, n, hold]
\* with outcome "nobatch", "nopng" (both return None), "staged" or "raised".
stage_from_latest_run(pd, fps, hold_last_sec, hold_mode, linkable, fault, t) ==
    LET all_runs == AllRuns(pd)
        inputs == StageInputs(pd, fps, hold_last_sec, hold_mode)
    IN  IF all_runs = <<>>
        THEN [pd |-> [pd EXCEPT !.last = inputs], outcome |-> "nobatch",
              batch |-> 0, n |-> 0, hold |-> 0]
        ELSE
        LET latest == LatestRun(all_runs)
            cleaned == CleanStaging(pd.staging.files)
            \* the glob of the latest folder runs after the reset of staging
            latestFiles == IF latest.name = StagingName THEN cleaned ELSE latest.files
            source_files == SortedNames({n \in DOMAIN latestFiles : IsPng(n)})
            hold_frames == HoldFrames(hold_last_sec, fps)
            env == [latest |-> IF latest.name = StagingName THEN 0
                               ELSE CHOOSE i \in 1..Len(pd.batches) :
                                        pd.batches[i].id = latest.id,
                    use_hardlink |-> hold_mode = "hardlink",
                    linkable |-> linkable,
                    failAt |-> IF fault.kind = "stagecopy" THEN fault.at ELSE 0]
            r == RunStageOps([batches |-> pd.batches, files |-> cleaned],
                             StageOps(source_files, hold_frames), 1, env)
            copied == source_files # <<>> /\ ~r.raised
            hasManifest == copied /\ ManifestName \in DOMAIN latestFiles
            manifestRaises == hasManifest /\ fault.kind = "stagemanifest"
            \* shutil.copy2(src_manifest, staging_dir / "current_manifest.json")
            final == IF hasManifest /\ ~manifestRaises
                     THEN Copy2(r.st, latestFiles[ManifestName].bytes,
                                CurrentManifestName, "staging")
                     ELSE r.st
            touched == \/ ~pd.staging.exists
                       \/ DOMAIN final.files # DOMAIN pd.staging.files
                       \/ cleaned # pd.staging.files
            staging == [exists |-> TRUE,
                        mtime |-> IF touched THEN t ELSE pd.staging.mtime,
                        files |-> final.files]
            raised == r.raised \/ manifestRaises
        IN  [pd |-> [batches |-> final.batches, staging |-> staging,
                     last |-> IF raised THEN NoStageInputs ELSE inputs],
             outcome |-> IF source_files = <<>> THEN "nopng"
                         ELSE IF raised THEN "raised" ELSE "staged",
             batch |-> latest.id, n |-> Len(source_files), hold |-> hold_frames]

(***************************************************************************)
(* deploy-wallpaper.py: load_runtime_cfg and effective_opts.  An option    *)
(* dictionary is a function from some of the option names to values; fps   *)
(* and hold_last_sec are in tenths.  An environment variable is a string,  *)
(* empty when it is not set.                                               *)
(***************************************************************************)
OptFields == {"fps", "hold_last_sec", "clean_materials", "stage_only", "hold_mode"}

\* The defaults that load_runtime_cfg starts from.
BuiltinDefaults ==
    [fps |-> 20, hold_last_sec |-> 0, clean_materials |-> FALSE, stage_only |-> FALSE,
     hold_mode |-> "hardlink"]

EmptyDict == [f \in {} |-> 0]

\* dict.update: the keys of upd shadow those of d, the others stay.
DictUpdate(d, upd) ==
    [f \in DOMAIN d \cup DOMAIN upd |-> IF f \in DOMAIN upd THEN upd[f] ELSE d[f]]

\* dict.get(key, default)
DictGet(d, key, default) == IF key \in DOMAIN d THEN d[key] ELSE default

\* runtime_config.json is missing, or unreadable as JSON.
NoFile == [present |-> FALSE, json |-> EmptyDict]

\* runtime_config.json holding the JSON object json.
JsonFile(json) == [present |-> TRUE, json |-> json]

\* load_runtime_cfg(): the top-level keys of the file replace those of the built-in
\* configuration; a missing or malformed file leaves it as it is.
load_runtime_cfg(file) ==
    LET cfg == [defaults |-> BuiltinDefaults, views |-> EmptyDict]
    IN  IF ~file.present THEN cfg ELSE DictUpdate(cfg, file.json)

\* int(s) for a string of characters: an optional sign and one or more digits.
\* The result is [ok, value]; ok is FALSE where int raises ValueError.
ParseInt(s) ==
    LET neg == Len(s) >= 1 /\ s[1] = "-"
        digits == IF Len(s) >= 1 /\ s[1] \in {"-", "+"} THEN Tail(s) ELSE s
        RECURSIVE Value(_)
        Value(ds) == IF ds = <<>> THEN 0
                     ELSE 10 * Value(SubSeq(ds, 1, Len(ds) - 1))
                          + (CHOOSE d \in 0..9 : DigitTok[d + 1] = ds[Len(ds)])
    IN  IF digits = <<>> \/ \E i \in 1..Len(digits) : digits[i] \notin Range(DigitTok)
        THEN [ok |-> FALSE, value |-> 0]
        ELSE [ok |-> TRUE, value |-> IF neg THEN -Value(digits) ELSE Value(digits)]

NoEnv == [clean |-> "", stage_only |-> "", hold_last |-> <<>>, hold_mode |-> ""]

\* frames / float(d.get("fps", 2.0)), in tenths of a second for frames and an fps in
\* tenths.  The result is [ok, value]; ok is FALSE where the division raises
\* ZeroDivisionError.
FramesToSeconds(frames, fps) ==
    IF fps = 0 THEN [ok |-> FALSE, value |-> 0]
    ELSE [ok |-> TRUE, value |-> (100 * frames) \div fps]

\* effective_opts(view_key, runtime_cfg) under the environment env.
effective_opts(view_key, runtime_cfg, env) ==
    LET d0 == DictGet(runtime_cfg, "defaults", EmptyDict)
        d1 == DictUpdate(d0, DictGet(DictGet(runtime_cfg, "views", EmptyDict),
                                     view_key, EmptyDict))
        d2 == IF env.clean # ""
              THEN DictUpdate(d1, [clean_materials |-> env.clean = "1"]) ELSE d1
        d3 == IF env.stage_only # ""
              THEN DictUpdate(d2, [stage_only |-> env.stage_only = "1"]) ELSE d2
        frames == ParseInt(env.hold_last)
        secs == FramesToSeconds(frames.value, DictGet(d3, "fps", 20))
        \* try: ... except Exception: pass
        d4 == IF env.hold_last # <<>> /\ frames.ok /\ secs.ok
              THEN DictUpdate(d3, [hold_last_sec |-> secs.value]) ELSE d3
    IN  IF env.hold_mode # ""
        THEN DictUpdate(d4, [hold_mode |-> env.hold_mode]) ELSE d4

\* The options as deploy_latest_frames reads them: opts.get(name, fallback).
OptsRead(opts) ==
    [fps |-> DictGet(opts, "fps", 20),
     hold_last_sec |-> DictGet(opts, "hold_last_sec", 0),
     hold_mode |-> DictGet(opts, "hold_mode", "hardlink"),
     clean_materials |-> DictGet(opts, "clean_materials", FALSE),
     stage_only |-> DictGet(opts, "stage_only", FALSE)]

(***************************************************************************)
(* The configuration of a run: the output root, projects.json and the      *)
(* lists of views that views_config.json may hold.                         *)
(***************************************************************************)
\* OUTPUT_BASE_DIR: one folder still under its raw name (micro sign), one under its
\* canonical name, and the error screenshot the fetcher leaves, which is a file.
OutputRoot ==
    << [name |-> <<"G", "_", "u00B5", "_", "I">>, isdir |-> TRUE],
       [name |-> <<"I", "_", "c", "_", "I">>, isdir |-> FALSE],
       [name |-> <<"H", "_", "c", "_", "I">>, isdir |-> TRUE] >>

ParentNames == {OutputRoot[i].name : i \in ChildDirs(OutputRoot)}

ViewG == [sat |-> <<"G">>, sec |-> <<"u00B5">>, im |-> <<"I">>]

ViewGmu == [sat |-> <<"G">>, sec |-> <<"u03BC">>, im |-> <<"I">>]

ViewH == [sat |-> <<"H">>, sec |-> <<"c">>, im |-> <<"I">>]

\* a view whose source folder does not exist
ViewI == [sat |-> <<"I">>, sec |-> <<"c">>, im |-> <<"I">>]

\* a view with no entry in projects.json
View5 == [sat |-> <<"5">>, sec |-> <<"c">>, im |-> <<"I">>]

\* a view with no 'sec' field
ViewNoSec == [sat |-> <<"G">>, im |-> <<"I">>]

ViewPool == {ViewG, ViewGmu, ViewH, ViewI, View5, ViewNoSec}

\* build_view_key of the views of the pool (<<>> for a view it raises on), its
\* project and its source folder, each computed once.
ViewKey == [v \in ViewPool |-> IF build_view_key_raises(v) THEN <<>> ELSE build_view_key(v)]

ViewLists ==
    { <<ViewG, View5, ViewH>>,
      <<ViewG, ViewNoSec, ViewH>>,
      <<ViewH, ViewI, ViewG>>,
      <<ViewG, ViewGmu>> }

\* projects.json
ProjsRaw ==
    << [view_name |-> <<"G", "_", "u00B5", "_", "I">>, project_path |-> "pG"],
       [view_name_base |-> <<"H", " ", "c", "_", "I">>, project_path |-> "pH"],
       [view_name |-> <<"I", "_", "c", "_", "I">>, project_path |-> "pI"] >>

ProjectPaths == {ProjsRaw[i].project_path : i \in 1..Len(ProjsRaw)}

\* p.get("view_name", "") or p.get("view_name_base", "")
ProjectName(p) ==
    IF "view_name" \in DOMAIN p /\ p["view_name"] # <<>> THEN p["view_name"]
    ELSE IF "view_name_base" \in DOMAIN p THEN p["view_name_base"]
    ELSE <<>>

\* The keys of the dict comprehension of main() line 200, built once.
ProjectKeys == [i \in 1..Len(ProjsRaw) |-> canonicalize(ProjectName(ProjsRaw[i]))]

\* projects = { canonicalize(name): p["project_path"] for p in projs_raw }; .get(key)
\* is the path of the last entry of that key, or None (here "").
ProjectsGet(key) ==
    LET hits == {i \in 1..Len(ProjsRaw) : ProjectKeys[i] = key}
    IN  IF hits = {} THEN ""
        ELSE ProjsRaw[CHOOSE i \in hits : \A j \in hits : j <= i].project_path

\* proj = projects.get(key) or projects.get(canonicalize(key))
ProjectFor(key) ==
    IF ProjectsGet(key) # "" THEN ProjectsGet(key) ELSE ProjectsGet(canonicalize(key))

ViewProject == [v \in ViewPool |-> ProjectFor(ViewKey[v])]

ViewSource == [v \in ViewPool |-> find_parent_dir_for_key(OutputRoot, ViewKey[v])]

\* What the project template puts into a materials folder.
TemplateFile(name) == File(<<"template", 0, name>>, <<"materials", 0, name>>)

TemplateMaterials ==
    [n \in {FrameName(999), <<"preview", ".png">>, <<"scene", ".json">>} |-> TemplateFile(n)]

\* The resolved options of a view: fps and hold_last_sec in tenths.
OptsPool ==
    [fps : {20}, hold_last_sec : {0, 5}, hold_mode : {"hardlink", "copy"},
     clean_materials : BOOLEAN, stage_only : BOOLEAN]

NoOpts ==
    [fps |-> 0, hold_last_sec |-> 0, hold_mode |-> "", clean_materials |-> FALSE,
     stage_only |-> FALSE]

\* The faults of the environment in one deployment of a view: the call that raises.
NoFault == [kind |-> "none", at |-> 0]

FaultPool ==
    {NoFault, [kind |-> "listroot", at |-> 0], [kind |-> "stagemanifest", at |-> 0],
     [kind |-> "projmanifest", at |-> 0]}
    \cup [kind : {"stagecopy", "matcopy"}, at : {2}]

(***************************************************************************)
(* deploy-wallpaper.py: deploy_latest_frames.                              *)
(***************************************************************************)
\* for frame in sorted(staging_dir.glob("frame_*.png")): shutil.copy2(frame, materials)
RECURSIVE PublishFrames(_, _, _, _, _)
PublishFrames(st, stagingFiles, frames, c, failAt) ==
    IF c > Len(frames) THEN [st |-> st, raised |-> FALSE]
    ELSE IF failAt = c THEN [st |-> st, raised |-> TRUE]
    ELSE PublishFrames(Copy2(st, stagingFiles[frames[c]].bytes, frames[c], "materials"),
                       stagingFiles, frames, c + 1, failAt)

\* The optional clean of the materials folder, limited to the staged frame names.
CleanMaterialsFramesOnly(mfiles) == Unlink(mfiles, {n \in DOMAIN mfiles : IsFramePng(n)})

\* for p in materials_path.glob("*.png"): p.unlink()
\* (every unlink is taken to succeed, as in CleanStaging)
CleanMaterials(mfiles) == Unlink(mfiles, {n \in DOMAIN mfiles : IsPng(n)})

\* A publication that cleans the materials folder whatever clean_materials says.
PublishAlwaysCleans(prj, stagingFiles, opts, fault) ==
    IF ~prj.materials THEN [prj |-> prj, outcome |-> "nomaterials"]
    ELSE
    LET frames == SortedNames({n \in DOMAIN stagingFiles : IsFramePng(n)})
        r == PublishFrames([batches |-> <<>>, files |-> CleanMaterials(prj.mfiles)],
                           stagingFiles, frames, 1,
                           IF fault.kind = "matcopy" THEN fault.at ELSE 0)
        pfiles == IF /\ ~r.raised
                      /\ CurrentManifestName \in DOMAIN stagingFiles
                      /\ fault.kind # "projmanifest"
                  THEN Copy2([batches |-> <<>>, files |-> prj.pfiles],
                             stagingFiles[CurrentManifestName].bytes,
                             CurrentManifestName, "project").files
                  ELSE prj.pfiles
    IN  [prj |-> [materials |-> TRUE, mfiles |-> r.st.files, pfiles |-> pfiles],
         outcome |-> IF r.raised THEN "raised" ELSE "published"]

\* Lines 159-186: the part of deploy_latest_frames after the stage-only return, on
\* the project folder prj = [materials, mfiles, pfiles].  The result is [prj, outcome].
PublishFromStaging(prj, stagingFiles, opts, fault) ==
    IF ~prj.materials THEN [prj |-> prj, outcome |-> "nomaterials"]
    ELSE
    LET cleaned == IF opts.clean_materials THEN CleanMaterials(prj.mfiles) ELSE prj.mfiles
        frames == SortedNames({n \in DOMAIN stagingFiles : IsFramePng(n)})
        r == PublishFrames([batches |-> <<>>, files |-> cleaned], stagingFiles, frames, 1,
                           IF fault.kind = "matcopy" THEN fault.at ELSE 0)
        \* the manifest copy is inside try/except: a failure is a warning
        pfiles == IF /\ ~r.raised
                      /\ CurrentManifestName \in DOMAIN stagingFiles
                      /\ fault.kind # "projmanifest"
                  THEN Copy2([batches |-> <<>>, files |-> prj.pfiles],
                             stagingFiles[CurrentManifestName].bytes,
                             CurrentManifestName, "project").files
                  ELSE prj.pfiles
    IN  [prj |-> [materials |-> TRUE, mfiles |-> r.st.files, pfiles |-> pfiles],
         outcome |-> IF r.raised THEN "raised" ELSE "published"]

\* The stage-only return left out.
PublishIgnoresStageOnly(prj, stagingFiles, opts, fault) ==
    PublishFromStaging(prj, stagingFiles, opts, fault)

\* A publication that makes the materials folder when it is missing.
PublishMakesMaterials(prj, stagingFiles, opts, fault) ==
    IF opts.stage_only THEN [prj |-> prj, outcome |-> "stage_only"]
    ELSE PublishFromStaging([prj EXCEPT !.materials = TRUE], stagingFiles, opts, fault)

\* Lines 154-186: the stage-only return, then the publication.
Publish(prj, stagingFiles, opts, fault) ==
    IF opts.stage_only THEN [prj |-> prj, outcome |-> "stage_only"]
    ELSE PublishFromStaging(prj, stagingFiles, opts, fault)

\* A miss of the stager that still cleans the materials folder.
PublishCleansOnMiss(outcome, prj, stagingFiles, opts, fault) ==
    IF outcome # "staged"
    THEN [prj |-> IF prj.materials /\ opts.clean_materials /\ ~opts.stage_only
                  THEN [prj EXCEPT !.mfiles = CleanMaterials(@)]
                  ELSE prj,
          outcome |-> outcome]
    ELSE Publish(prj, stagingFiles, opts, fault)

\* Lines 145-152: when the stager returned None the function reports the miss and
\* returns; else it goes on with lines 154-186.
PublishIfStaged(outcome, prj, stagingFiles, opts, fault) ==
    IF outcome # "staged" THEN [prj |-> prj, outcome |-> outcome]
    ELSE Publish(prj, stagingFiles, opts, fault)

\* deploy_latest_frames(view_config, project_path_str, opts) on the parent folders
\* par and the project folders prj.  The result is
\* [parents, projects, outcome, parent, batch, staged, repeat, had]: staged says
\* that the stager returned the staging folder, repeat that it ran on the inputs of
\* its last completed call, had how many frames staging held before.
deploy_latest_frames(view, project_path, opts, par, prj, linkable, fault, t) ==
    LET key == build_view_key(view)
        none == [parents |-> par, projects |-> prj, outcome |-> "nosource",
                 parent |-> <<>>, batch |-> 0, staged |-> FALSE, repeat |-> FALSE,
                 had |-> 0]
    IN  \* output_root.iterdir() is reached only when the direct probe misses
        IF ~DirectIsDir(OutputRoot, key) /\ fault.kind = "listroot"
        THEN [none EXCEPT !.outcome = "raised"]
        ELSE
        LET loc == find_parent_dir_for_key(OutputRoot, key)
        IN  IF ~loc.found THEN none
            ELSE
            LET pd == par[loc.name]
                s == stage_from_latest_run(pd, opts.fps, opts.hold_last_sec,
                                           opts.hold_mode, linkable, fault, t)
                par1 == [par EXCEPT ![loc.name] = s.pd]
                staged == [none EXCEPT !.parents = par1, !.outcome = s.outcome,
                                       !.parent = loc.name, !.batch = s.batch,
                                       !.staged = (s.outcome = "staged"),
                                       !.repeat = (s.pd.last.called /\ pd.last = s.pd.last),
                                       !.had = Cardinality({n \in DOMAIN pd.staging.files :
                                                               IsFramePng(n)})]
                p == PublishIfStaged(s.outcome, prj[project_path], s.pd.staging.files,
                                     opts, fault)
            IN  [staged EXCEPT !.projects = [prj EXCEPT ![project_path] = p.prj],
                               !.outcome = p.outcome]

(***************************************************************************)
(* The state machine of the deployment: the acquisition that adds batches  *)
(* between runs, and main() with one step per configured view.             *)
(***************************************************************************)
NoEvent ==
    [kind |-> "none", i |-> 0, outcome |-> "", parent |-> <<>>, proj |-> "",
     opts |-> NoOpts, batch |-> 0, staged |-> FALSE, repeat |-> FALSE, had |-> 0,
     fault |-> NoFault]

CanonIdle == [step |-> 0, text |-> <<>>, once |-> <<>>, twice |-> <<>>]

LocateIdle == [step |-> 0, root |-> <<>>, view |-> ViewG, result |-> NotFound]

CallIdle == [fn |-> "", step |-> 0, args |-> <<>>, result |-> <<>>]

EmptyParent ==
    [batches |-> <<>>,
     staging |-> [exists |-> FALSE, mtime |-> 0, files |-> EmptyDir],
     last |-> NoStageInputs]

TemplateProject(materials) ==
    [materials |-> materials,
     mfiles |-> IF materials THEN TemplateMaterials ELSE EmptyDir,
     pfiles |-> EmptyDir]

\* The state before the first run: the views of views_config.json are one of
\* viewLists, and of the project folders those of maybeBare may lack a materials
\* folder.
InitWith(viewLists, maybeBare) ==
    /\ views \in viewLists
    /\ parents = [p \in ParentNames |-> EmptyParent]
    /\ \E bare \in SUBSET maybeBare :
          projects = [p \in ProjectPaths |-> TemplateProject(p \notin bare)]
    /\ runtime = <<>>
    /\ now = 0
    /\ pc = "idle"
    /\ idx = 0
    /\ report = <<>>
    /\ runs = 0
    /\ nfaults = 0
    /\ ev = NoEvent

Init ==
    /\ canon = CanonIdle
    /\ locate = LocateIdle
    /\ call = CallIdle
    /\ InitWith(ViewLists, {"pH"})

\* The parent folders that the configured views resolve to.
ViewParents ==
    {ViewSource[views[i]].name :
        i \in {j \in 1..Len(views) :
                  ~build_view_key_raises(views[j]) /\ ViewSource[views[j]].found}}

\* What a batch of the fetcher may hold: PNG files and, unless the fetch failed
\* after the extraction, manifest.json.
BatchShapes ==
    { [pngs |-> {}, manifest |-> TRUE],
      [pngs |-> {<<"a", ".png">>}, manifest |-> FALSE],
      [pngs |-> {<<"a", ".png">>, <<"b", ".png">>}, manifest |-> TRUE] }

BatchCount == LET RECURSIVE Sum(_)
                  Sum(S) == IF S = {} THEN 0
                            ELSE LET p == CHOOSE q \in S : TRUE
                                 IN  Len(parents[p].batches) + Sum(S \ {p})
              IN  Sum(ParentNames)

NewBatch(id, mtime, pngs, manifest) ==
    [name |-> <<"run">> \o Decimal(id), id |-> id, mtime |-> mtime,
     files |-> [n \in pngs \cup (IF manifest THEN {ManifestName} ELSE {}) |->
                   File(<<"batch", id, n>>, <<"batch", id, n>>)]]

InsertAt(seq, pos, e) == SubSeq(seq, 1, pos) \o <<e>> \o SubSeq(seq, pos + 1, Len(seq))

\* working_fetcher.py run_task: a new batch folder under a parent folder, between
\* runs of the deployment.  Its place in the listing is the file system's choice;
\* its modification time is that of the last batch or a later one.
Acquire(p, shape, tick, pos) ==
    /\ pc # "running"
    /\ p \in ViewParents
    /\ BatchCount < MaxBatches
    /\ pos \in 0..Len(parents[p].batches)
    /\ now' = IF tick THEN now + 1 ELSE now
    /\ parents' = [parents EXCEPT ![p].batches =
                      InsertAt(@, pos, NewBatch(BatchCount + 1, now', shape.pngs,
                                                shape.manifest))]
    /\ ev' = [NoEvent EXCEPT !.kind = "acquire", !.parent = p, !.batch = BatchCount + 1]
    /\ UNCHANGED <<canon, locate, call, views, projects, runtime, pc, idx, report, runs, nfaults>>

\* The keys of the configured views that main() deploys: those with a project.
DeployKeys ==
    {ViewKey[views[i]] :
        i \in {j \in 1..Len(views) :
                  ~build_view_key_raises(views[j]) /\ ViewProject[views[j]] # ""}}

\* main() up to its for loop: runtime_config.json and the environment are read
\* once, so that effective_opts is a function of the view key for the whole run.
StartRun(rt) ==
    /\ pc # "running"
    /\ runs < MaxRuns
    /\ runs' = runs + 1
    /\ now' = now + 1
    /\ pc' = "running"
    /\ idx' = 1
    /\ report' = <<>>
    /\ runtime' = rt
    /\ ev' = [NoEvent EXCEPT !.kind = "start"]
    /\ UNCHANGED <<canon, locate, call, views, parents, projects, nfaults>>

\* main() line 203: build_view_key(view) raises KeyError, which nothing catches.
ViewKeyError ==
    /\ pc = "running"
    /\ idx <= Len(views)
    /\ build_view_key_raises(views[idx])
    /\ pc' = "crashed"
    /\ ev' = [NoEvent EXCEPT !.kind = "keyerror", !.i = idx, !.outcome = "raised"]
    /\ UNCHANGED <<canon, locate, call, views, parents, projects, runtime, now, idx, report, runs, nfaults>>

\* A skip that ends the loop instead of going on with the next view.
SkipViewAborts ==
    /\ pc = "running"
    /\ idx <= Len(views)
    /\ ~build_view_key_raises(views[idx])
    /\ ViewProject[views[idx]] = ""
    /\ idx' = Len(views) + 1
    /\ report' = Append(report, "skip")
    /\ ev' = [NoEvent EXCEPT !.kind = "skip", !.i = idx, !.outcome = "skip"]
    /\ UNCHANGED <<canon, locate, call, views, parents, projects, runtime, now, pc, runs, nfaults>>

\* main() lines 208-209: no project for the key.
SkipView ==
    /\ pc = "running"
    /\ idx <= Len(views)
    /\ ~build_view_key_raises(views[idx])
    /\ ViewProject[views[idx]] = ""
    /\ idx' = idx + 1
    /\ report' = Append(report, "skip")
    /\ ev' = [NoEvent EXCEPT !.kind = "skip", !.i = idx, !.outcome = "skip"]
    /\ UNCHANGED <<canon, locate, call, views, parents, projects, runtime, now, pc, runs, nfaults>>

\* main() lines 205-207: deploy_latest_frames for the view, with the options that
\* effective_opts resolved for its key.
DeployView(linkable, fault) ==
    /\ pc = "running"
    /\ idx <= Len(views)
    /\ ~build_view_key_raises(views[idx])
    /\ ViewProject[views[idx]] # ""
    /\ runtime[ViewKey[views[idx]]].hold_mode = "copy" => linkable
    /\ fault # NoFault => nfaults < MaxFaults
    /\ nfaults' = IF fault = NoFault THEN nfaults ELSE nfaults + 1
    /\ \E proj \in {ViewProject[views[idx]]}, opts \in {runtime[ViewKey[views[idx]]]} :
       \E d \in {deploy_latest_frames(views[idx], proj, opts, parents, projects,
                                      linkable, fault, now)} :
           /\ parents' = d.parents
           /\ projects' = d.projects
           /\ pc' = IF d.outcome = "raised" THEN "crashed" ELSE "running"
           /\ idx' = IF d.outcome = "raised" THEN idx ELSE idx + 1
           /\ report' = IF d.outcome = "raised" THEN report ELSE Append(report, d.outcome)
           /\ ev' = [kind |-> "deploy", i |-> idx, outcome |-> d.outcome,
                     parent |-> d.parent, proj |-> proj, opts |-> opts,
                     batch |-> d.batch, staged |-> d.staged, repeat |-> d.repeat,
                     had |-> d.had, fault |-> fault]
    /\ UNCHANGED <<canon, locate, call, views, runtime, now, runs>>

\* A summary that does not wait for the last view.
FinishEarly ==
    /\ pc = "running"
    /\ idx >= 1
    /\ pc' = "done"
    /\ idx' = 0
    /\ report' = <<>>
    /\ runtime' = <<>>
    /\ ev' = [NoEvent EXCEPT !.kind = "finish"]
    /\ UNCHANGED <<canon, locate, call, views, parents, projects, now, runs, nfaults>>

\* main() line 211: the summary after the last view, and the end of the process
\* with what it held in memory.
Finish ==
    /\ pc = "running"
    /\ idx > Len(views)
    /\ pc' = "done"
    /\ idx' = 0
    /\ report' = <<>>
    /\ runtime' = <<>>
    /\ ev' = [NoEvent EXCEPT !.kind = "finish"]
    /\ UNCHANGED <<canon, locate, call, views, parents, projects, now, runs, nfaults>>

\* The inputs of the runs over several views: the batches arrive in time order
\* with distinct modification times.
MainShapes == BatchShapes

MainOpts ==
    { [fps |-> 20, hold_last_sec |-> 0, hold_mode |-> "hardlink",
       clean_materials |-> FALSE, stage_only |-> FALSE],
      [fps |-> 20, hold_last_sec |-> 5, hold_mode |-> "copy",
       clean_materials |-> TRUE, stage_only |-> FALSE],
      [fps |-> 20, hold_last_sec |-> 0, hold_mode |-> "hardlink",
       clean_materials |-> TRUE, stage_only |-> TRUE] }

Next ==
    \/ \E p \in ParentNames, shape \in MainShapes :
          Acquire(p, shape, TRUE, Len(parents[p].batches))
    \/ \E opts \in MainOpts :
          StartRun([k \in DeployKeys |->
                       OptsRead(effective_opts(k, load_runtime_cfg(
                                                      JsonFile([defaults |-> opts])),
                                               NoEnv))])
    \/ ViewKeyError
    \/ SkipView
    \/ \E linkable \in BOOLEAN, fault \in FaultPool : DeployView(linkable, fault)
    \/ Finish

Spec == Init /\ [][Next]_vars

\* The deployment of one view, with every batch shape, option set and listing order.
InitStage ==
    /\ canon = CanonIdle
    /\ locate = LocateIdle
    /\ call = CallIdle
    /\ InitWith({<<ViewG>>}, {"pG"})

NextStage ==
    \/ \E p \in ParentNames, shape \in BatchShapes :
          Acquire(p, shape, TRUE, Len(parents[p].batches))
    \/ \E rt \in [DeployKeys -> OptsPool] :
          StartRun([k \in DeployKeys |->
                       OptsRead(effective_opts(k, load_runtime_cfg(JsonFile([views |-> rt])),
                                               NoEnv))])
    \/ \E linkable \in BOOLEAN, fault \in FaultPool : DeployView(linkable, fault)
    \/ Finish

SpecStage == InitStage /\ [][NextStage]_vars

(***************************************************************************)
(* canonicalize as a function of its input: every string of at most MaxLen *)
(* characters, canonicalized and canonicalized again.                      *)
(***************************************************************************)
deployVars == <<views, parents, projects, runtime, now, pc, idx, report, runs, nfaults, ev>>

InitCanon ==
    /\ canon \in {[CanonIdle EXCEPT !.text = t] : t \in SeqsUpTo(Chars, MaxLen)}
    /\ locate = LocateIdle
    /\ call = CallIdle
    /\ InitWith({<<>>}, {})

CanonicalizeOnce ==
    /\ canon.step = 0
    /\ canon' = [canon EXCEPT !.step = 1, !.once = canonicalize(canon.text)]
    /\ UNCHANGED <<locate, call, deployVars>>

CanonicalizeTwice ==
    /\ canon.step = 1
    /\ canon' = [canon EXCEPT !.step = 2, !.twice = canonicalize(canon.once)]
    /\ UNCHANGED <<locate, call, deployVars>>

NextCanon == CanonicalizeOnce \/ CanonicalizeTwice

SpecCanon == InitCanon /\ [][NextCanon]_vars

(***************************************************************************)
(* find_parent_dir_for_key as a function of the output root and the view:  *)
(* every listing of at most MaxChildren entries over a pool of names.      *)
(***************************************************************************)
LocateNames ==
    { <<"G", "_", "m", "_", "I">>, <<"G", "_", "u00B5", "_", "I">>,
      <<"G", "_", "u03BC", "_", "I">>, <<"G", "_", "u00B0", "m", "_", "I">>,
      <<"G", "_", "_", "_", "I">>, <<"G", "_", " ", "_", "I">> }

LocateViews ==
    {[sat |-> <<"G">>, sec |-> sec, im |-> <<"I">>] :
        sec \in {<<"m">>, <<"u00B5">>, <<" ">>, <<"c">>}}

\* The listings: no two entries of a directory share a name.
LocateRoots ==
    {r \in SeqsUpTo([name : LocateNames, isdir : BOOLEAN], MaxChildren) :
        \A i, j \in 1..Len(r) : r[i].name = r[j].name => i = j}

InitLocate ==
    /\ canon = CanonIdle
    /\ call = CallIdle
    /\ locate \in {[LocateIdle EXCEPT !.root = r, !.view = v] :
                      r \in LocateRoots, v \in LocateViews}
    /\ InitWith({<<>>}, {})

\* deploy_latest_frames lines 137-140 on the drawn root.
Locate ==
    /\ locate.step = 0
    /\ locate' = [locate EXCEPT
                     !.step = 1,
                     !.result = find_parent_dir_for_key(locate.root,
                                                        build_view_key(locate.view))]
    /\ UNCHANGED <<canon, call, deployVars>>

NextLocate == Locate

SpecLocate == InitLocate /\ [][NextLocate]_vars

(***************************************************************************)
(* Properties of the stager (SpecStage).                                   *)
(***************************************************************************)
\* The frames that the staging folder of parent folder p holds.
StagedFrames(p) == {n \in DOMAIN parents[p].staging.files : IsFramePng(n)}

\* The batch of parent folder p that the last deploy step selected.
SelectedBatch(p) ==
    parents[p].batches[CHOOSE i \in 1..Len(parents[p].batches) :
                           parents[p].batches[i].id = ev.batch]

SelectedPngs(p) == {n \in DOMAIN SelectedBatch(p).files : IsPng(n)}

C2_Idempotent ==
    [][(ev'.kind = "deploy" /\ ev'.repeat) =>
          Content(parents'[ev'.parent].staging.files)
              = Content(parents[ev'.parent].staging.files)]_vars

\* A second run in a row that staged frames with hold frames.
C2_Witness ==
    /\ ev.kind = "deploy" /\ ev.repeat /\ ev.staged
    /\ ev.opts.hold_last_sec > 0
    /\ runs = 2

\* C3: after a run of the stager that returned the staging folder, every file of
\* staging comes from the selected batch: the frames are copies of its PNG files and
\* current_manifest.json is there only if the batch holds manifest.json, and is its
\* copy.
C3_NoStaleContent ==
    (ev.kind = "deploy" /\ ev.staged) =>
        LET files == parents[ev.parent].staging.files
            batch == SelectedBatch(ev.parent).files
        IN  /\ \A n \in StagedFrames(ev.parent) :
                  \E m \in SelectedPngs(ev.parent) : files[n].bytes = batch[m].bytes
            /\ CurrentManifestName \in DOMAIN files =>
                  /\ ManifestName \in DOMAIN batch
                  /\ files[CurrentManifestName].bytes = batch[ManifestName].bytes

(***************************************************************************)
(* Properties of canonicalize (SpecCanon).                                 *)
(***************************************************************************)
\* C4: canonicalize is idempotent: canonicalizing its output yields the output.
C4_Idempotent == canon.step = 2 => canon.twice = canon.once

\* An input that canonicalize changes, canonicalized twice.
C4_Witness == canon.step = 2 /\ canon.once # canon.text /\ canon.once # <<>>

\* C5: the output of canonicalize holds only ASCII letters, ASCII digits, underscore
\* and hyphen, whatever the input holds.
C5_AsciiOnly ==
    canon.step >= 1 =>
        \A i \in 1..Len(canon.once) : canon.once[i] \in AsciiAlnum \cup {"_", "-"}

(***************************************************************************)
(* Properties of main() over several views (Spec).                         *)
(***************************************************************************)
\* C6: a view whose key has no project is reported as one skip, is neither staged nor
\* published, and the run goes on with the next view on the same files, options and
\* clock: the views before the current one have one report each, a skip exactly for
\* those without a project.
C6_SkipIsolated ==
    /\ [](pc = "running" =>
            /\ Len(report) = idx - 1
            /\ \A i \in 1..Len(report) :
                  (report[i] = "skip") <=> (ViewProject[views[i]] = ""))
    /\ [][(ev'.kind = "skip" /\ ev' # ev) =>
             /\ parents' = parents /\ projects' = projects
             /\ runtime' = runtime /\ now' = now
             /\ pc' = "running" /\ idx' = ev'.i + 1]_vars

\* Three views, the second without a project: all three done, one skip, the other
\* two published.
C6_Witness ==
    /\ pc = "running" /\ idx = 4
    /\ report = <<"published", "skip", "published">>

\* C7: no failure of one view is fatal to the run: whatever fails for a view, main()
\* goes on.
C7_NoFatal == pc # "crashed"

(***************************************************************************)
(* Properties of the publication (SpecStage).                              *)
(***************************************************************************)
\* The names and contents of the files of a directory among names.
ContentOf(dir, names) == [n \in names |-> dir[n].bytes]

C9_StageOnly ==
    [][(ev'.kind = "deploy" /\ ev'.opts.stage_only) =>
          /\ projects' = projects
          /\ ev'.staged => ev'.outcome = "stage_only"]_vars

\* A stage-only deployment with clean_materials that staged frames, the materials
\* folder holding PNG files.
C9_Witness ==
    /\ ev.kind = "deploy" /\ ev.outcome = "stage_only" /\ ev.opts.clean_materials
    /\ projects[ev.proj].materials
    /\ \E n \in DOMAIN projects[ev.proj].mfiles : IsPng(n)

(***************************************************************************)
(* Properties of find_parent_dir_for_key (SpecLocate).                     *)
(***************************************************************************)
\* The child directories of the drawn root whose name canonicalizes to the key.
LocateHits ==
    {i \in 1..Len(locate.root) :
        /\ locate.root[i].isdir
        /\ canonicalize(locate.root[i].name) = build_view_key(locate.view)}

\* C10: for the key k of a view, the lookup returns the child directory named k when
\* there is one; otherwise the first child directory in listing order whose name
\* canonicalizes to k; it finds nothing exactly when no child directory's name
\* canonicalizes to k; and the name of what it returns canonicalizes to k.
C10_DriftTolerant ==
    locate.step = 1 =>
        LET k == build_view_key(locate.view)
            r == locate.result
            direct == \E i \in 1..Len(locate.root) :
                         locate.root[i].isdir /\ locate.root[i].name = k
        IN  /\ direct => r = Found(k)
            /\ (~direct /\ LocateHits # {}) =>
                  /\ r.found
                  /\ \E i \in LocateHits :
                        /\ r.name = locate.root[i].name
                        /\ \A j \in LocateHits : i <= j
            /\ r.found <=> LocateHits # {}
            /\ r.found => canonicalize(r.name) = k

\* A lookup without a folder of the canonical name, two folders of drifted names.
C10_Witness ==
    /\ locate.step = 1
    /\ locate.result.found
    /\ locate.result.name # build_view_key(locate.view)
    /\ Cardinality(LocateHits) = 2

(***************************************************************************)
(* effective_opts as a function of runtime_config.json, the environment    *)
(* and the view key (SpecOpts).                                            *)
(***************************************************************************)
ResolveKeys == {ViewKey[ViewG], ViewKey[ViewH]}

\* What runtime_config.json may hold under "defaults".
DefaultsPool ==
    { [fps |-> 50, hold_last_sec |-> 30, clean_materials |-> TRUE, stage_only |-> FALSE,
       hold_mode |-> "copy"],
      [fps |-> 0, hold_last_sec |-> 30, clean_materials |-> FALSE, stage_only |-> TRUE,
       hold_mode |-> "hardlink"],
      [fps |-> 0, hold_last_sec |-> 60, clean_materials |-> FALSE, stage_only |-> FALSE,
       hold_mode |-> "copy"] }

\* What it may hold under "views", for the key of ViewG alone.
PerViewPool ==
    { EmptyDict,
      [k \in {ViewKey[ViewG]} |-> [fps |-> 20]],
      [k \in {ViewKey[ViewG]} |-> [hold_last_sec |-> 10, clean_materials |-> FALSE,
                                   stage_only |-> TRUE, hold_mode |-> "hardlink"]] }

RuntimeFiles ==
    {NoFile} \cup {JsonFile([views |-> v]) : v \in PerViewPool}
             \cup {JsonFile([defaults |-> d, views |-> v]) :
                      d \in DefaultsPool, v \in PerViewPool}

\* CLEAN_MATERIALS, STAGE_ONLY, HOLD_LAST_FRAMES and HOLD_MODE: not set, well formed
\* or malformed.
EnvPool ==
    [clean : {"", "1", "0", "yes"},
     stage_only : {"", "1", "maybe"},
     hold_last : {<<>>, <<"0">>, <<"1", "0">>, <<"-", "5">>, <<"1", "c">>},
     hold_mode : {"", "copy", "hardlink", "bogus"}]

InitOpts ==
    /\ canon = CanonIdle
    /\ locate = LocateIdle
    /\ call \in {[CallIdle EXCEPT !.fn = "effective_opts",
                                  !.args = [view_key |-> k, file |-> f, env |-> e]] :
                    k \in ResolveKeys, f \in RuntimeFiles, e \in EnvPool}
    /\ InitWith({<<>>}, {})

\* main() lines 189 and 206.
Resolve ==
    /\ call.fn = "effective_opts"
    /\ call.step = 0
    /\ call' = [call EXCEPT
                   !.step = 1,
                   !.result = effective_opts(call.args.view_key,
                                             load_runtime_cfg(call.args.file),
                                             call.args.env)]
    /\ UNCHANGED <<canon, locate, deployVars>>

\* The parent folder that the resolved options are staged on: one batch of two PNG
\* files and a manifest, no staging folder yet.
ResolvedParent ==
    [EmptyParent EXCEPT !.batches = <<NewBatch(1, 1, {<<"a", ".png">>, <<"b", ".png">>},
                                               TRUE)>>]

\* deploy_latest_frames lines 145-150: the stager called with the fps, hold_last_sec
\* and hold_mode read from the resolved options.
StageResolved ==
    /\ call.fn = "effective_opts"
    /\ call.step = 1
    /\ call' = [call EXCEPT
                   !.step = 2,
                   !.result = [opts |-> call.result,
                               staged |-> LET o == OptsRead(call.result)
                                          IN  stage_from_latest_run(
                                                  ResolvedParent, o.fps, o.hold_last_sec,
                                                  o.hold_mode, TRUE, NoFault, 2)]]
    /\ UNCHANGED <<canon, locate, deployVars>>

NextOpts == Resolve \/ StageResolved

SpecOpts == InitOpts /\ [][NextOpts]_vars

\* The layers below the environment: the defaults overlaid by the entry of the view.
LowerLayers ==
    LET cfg == load_runtime_cfg(call.args.file)
        entry == IF call.args.view_key \in DOMAIN cfg.views
                 THEN cfg.views[call.args.view_key] ELSE EmptyDict
    IN  [f \in OptFields |-> IF f \in DOMAIN entry THEN entry[f] ELSE cfg.defaults[f]]

FlagWellFormed(s) == s \in {"1", "0"}

ModeWellFormed(s) == s \in {"hardlink", "copy"}

\* The seconds that F frames take at fps, both layers in tenths: F / max(fps, 0.1).
HoldSecondsOf(frames, fps) == (100 * frames) \div Max(fps, 1)

\* C11: every option of a view has the value of its well-formed environment override
\* when there is one, else the value of the entry of the view when the entry names
\* the option, else the value of the defaults.
C11_Precedence ==
    (call.fn = "effective_opts" /\ call.step = 1) =>
        LET env == call.args.env
            r == call.result
            low == LowerLayers
        IN  /\ r.fps = low.fps
            /\ r.clean_materials = IF FlagWellFormed(env.clean) THEN env.clean = "1"
                                   ELSE low.clean_materials
            /\ r.stage_only = IF FlagWellFormed(env.stage_only) THEN env.stage_only = "1"
                              ELSE low.stage_only
            /\ r.hold_mode = IF ModeWellFormed(env.hold_mode) THEN env.hold_mode
                             ELSE low.hold_mode
            /\ r.hold_last_sec = IF ParseInt(env.hold_last).ok
                                 THEN HoldSecondsOf(ParseInt(env.hold_last).value, low.fps)
                                 ELSE low.hold_last_sec

\* C12: a malformed environment override is ignored: the option keeps the value of
\* the layers below.
C12_FailSoft ==
    (call.fn = "effective_opts" /\ call.step = 1) =>
        LET env == call.args.env
            r == call.result
            low == LowerLayers
        IN  /\ (env.clean # "" /\ ~FlagWellFormed(env.clean)) =>
                  r.clean_materials = low.clean_materials
            /\ (env.stage_only # "" /\ ~FlagWellFormed(env.stage_only)) =>
                  r.stage_only = low.stage_only
            /\ (env.hold_last # <<>> /\ ~ParseInt(env.hold_last).ok) =>
                  r.hold_last_sec = low.hold_last_sec
            /\ (env.hold_mode # "" /\ ~ModeWellFormed(env.hold_mode)) =>
                  r.hold_mode = low.hold_mode

\* C13: an integer frame count F in the environment resolves hold_last_sec to
\* F / max(fps, epsilon) for the fps of the layers below, also for an fps of 0.
C13_FrameCount ==
    (call.fn = "effective_opts" /\ call.step = 1 /\ ParseInt(call.args.env.hold_last).ok) =>
        call.result.hold_last_sec
            = HoldSecondsOf(ParseInt(call.args.env.hold_last).value, LowerLayers.fps)

(***************************************************************************)
(* stage_from_latest_run as a function of the parent folder and its        *)
(* options, called twice in a row (SpecStager): batch folders in every     *)
(* listing order, with equal and different modification times.             *)
(***************************************************************************)
StagerFps == {-10, 0, 2, 20}

StagerHold == {-30, 0, 25, 30, 60}

\* The modification times of the batch folders; the stager runs later.
BatchTimes == {1, 2}

StagerStart == 3

\* The parent folders before the first call: at most MaxBatches batch folders in
\* listing order, no staging folder.
ParentPool ==
    {[EmptyParent EXCEPT !.batches =
          [i \in 1..Len(bs) |-> NewBatch(i, bs[i].mtime, bs[i].shape.pngs,
                                         bs[i].shape.manifest)]] :
        bs \in SeqsUpTo([shape : BatchShapes, mtime : BatchTimes], MaxBatches)}

\* The hold mode, and whether the file system lets hard links be made (which only
\* the mode "hardlink" finds out).
LinkPool ==
    { [hold_mode |-> "hardlink", linkable |-> TRUE],
      [hold_mode |-> "hardlink", linkable |-> FALSE],
      [hold_mode |-> "copy", linkable |-> TRUE] }

InitStager ==
    /\ canon = CanonIdle
    /\ locate = LocateIdle
    /\ call \in {[CallIdle EXCEPT
                     !.fn = "stage_from_latest_run",
                     !.args = [pd |-> pd, fps |-> fps, hold_last_sec |-> h,
                               hold_mode |-> m.hold_mode, linkable |-> m.linkable],
                     !.result = [pd |-> pd, outcome |-> "", batch |-> 0, n |-> 0,
                                 hold |-> 0]] :
                    pd \in ParentPool, fps \in StagerFps, h \in StagerHold,
                    m \in LinkPool}
    /\ InitWith({<<>>}, {})

\* One call of the stager on the parent folder as the call before left it.
Stage ==
    /\ call.fn = "stage_from_latest_run"
    /\ call.step < 2
    /\ call' = [call EXCEPT
                   !.step = @ + 1,
                   !.result = stage_from_latest_run(call.result.pd, call.args.fps,
                                                    call.args.hold_last_sec,
                                                    call.args.hold_mode,
                                                    call.args.linkable, NoFault,
                                                    StagerStart + call.step)]
    /\ UNCHANGED <<canon, locate, deployVars>>

NextStager == Stage

SpecStager == InitStager /\ [][NextStager]_vars

\* The staged frames after the call.
CallFrames == {n \in DOMAIN call.result.pd.staging.files : IsFramePng(n)}

\* The call returned the staging folder.
CallStaged == call.fn = "stage_from_latest_run" /\ call.step >= 1
              /\ call.result.outcome = "staged"

\* C14: the stager appends max(0, round(hold_last_sec * max(fps, 0.1))) held frames:
\* none for a product of zero or less, else the whole number nearest to the product,
\* with an fps below 0.1 counted as 0.1; fps 2.0 and 3 seconds give 6.
C14_HoldCount ==
    /\ CallStaged =>
          LET product == call.args.hold_last_sec * Max(call.args.fps, 1)
              held == Cardinality(CallFrames) - call.result.n
          IN  /\ held >= 0
              /\ product <= 0 => held = 0
              /\ product > 0 => (100 * held - product <= 50 /\ product - 100 * held <= 50)
    /\ HoldFrames(30, 20) = 6

\* Held frames at an fps of 0, which counts as 0.1: 6 seconds give one frame.
C14_Witness ==
    /\ CallStaged
    /\ call.args.fps = 0 /\ call.args.hold_last_sec = 60
    /\ Cardinality(CallFrames) = call.result.n + 1

\* The PNG files of the batch folder that the call selected.
CallSource ==
    LET batches == call.result.pd.batches
    IN  batches[CHOOSE i \in 1..Len(batches) : batches[i].id = call.result.batch].files

CallSourcePngs == {n \in DOMAIN CallSource : IsPng(n)}

\* C15: whether or not hard links can be made, the stager of a batch with PNG files
\* returns staging with every frame in place and holding the bytes of a source file;
\* where the link fails, and in every hold mode other than "hardlink", each frame is
\* a file of its own and not a link to the batch.
C15_LinkFallback ==
    (call.fn = "stage_from_latest_run" /\ call.step >= 1 /\ call.result.n > 0) =>
        LET files == call.result.pd.staging.files
            count == call.result.n + HoldFrames(call.args.hold_last_sec, call.args.fps)
        IN  /\ call.result.outcome = "staged"
            /\ \A i \in 0..(count - 1) : FrameName(i) \in DOMAIN files
            /\ \A f \in CallFrames :
                  /\ \E n \in CallSourcePngs : files[f].bytes = CallSource[n].bytes
                  /\ (call.args.hold_mode # "hardlink" \/ ~call.args.linkable) =>
                        files[f].ino[1] = "staging"

\* Mode "hardlink" on a file system without hard links: frames and held frames
\* staged all the same.
C15_Witness ==
    /\ CallStaged
    /\ call.args.hold_mode = "hardlink" /\ ~call.args.linkable
    /\ Cardinality(CallFrames) > call.result.n
    /\ call.result.n = 2

\* C16: a deployment that comes to publish, stage_only being false, into a project
\* without a materials folder reports the miss for its view, leaves every project
\* folder as it was (no materials folder made, no frame and no manifest copied), and
\* the run goes on with the next view.
C16_PublishMiss ==
    /\ []((ev.kind = "deploy" /\ ev.staged /\ ~ev.opts.stage_only
           /\ ~projects[ev.proj].materials) => ev.outcome = "nomaterials")
    /\ [][(ev'.kind = "deploy" /\ ev'.staged /\ ~ev'.opts.stage_only
           /\ ~projects[ev'.proj].materials) =>
             /\ projects' = projects
             /\ report' = Append(report, "nomaterials")
             /\ pc' = "running" /\ idx' = idx + 1]_vars

\* A run in which the view after the one without a materials folder was published.
C16_Witness ==
    /\ pc = "running"
    /\ \E i \in 1..Len(report) :
          report[i] = "nomaterials" /\ \E j \in (i + 1)..Len(report) : report[j] = "published"
    /\ \E p \in ProjectPaths : ~projects[p].materials

\* C17: a failing copy of a manifest, of the batch's into staging or of the staged
\* one into the project, aborts neither the deployment of the view nor the run.
C17_ManifestBestEffort ==
    (ev.kind = "deploy" /\ ev.fault.kind \in {"stagemanifest", "projmanifest"}) =>
        (ev.outcome # "raised" /\ pc # "crashed")

\* The batch folders listed in the parent folder of the call, and the greatest of
\* their modification times.
CallBatches == call.result.pd.batches

CallNewest(i) == \A j \in 1..Len(CallBatches) : CallBatches[j].mtime <= CallBatches[i].mtime

\* C18: the stager finds no batch exactly when the parent folder has no batch folder;
\* otherwise it selects a batch folder whose modification time no other batch folder
\* exceeds, and the frames it stages are that folder's: never staging itself, also
\* when an earlier call has made staging the newest folder.
C18_LatestBatch ==
    (call.fn = "stage_from_latest_run" /\ call.step >= 1) =>
        /\ (call.result.outcome = "nobatch") <=> (CallBatches = <<>>)
        /\ CallBatches # <<>> =>
              \E i \in 1..Len(CallBatches) :
                  CallBatches[i].id = call.result.batch /\ CallNewest(i)
        /\ CallStaged =>
              \A f \in CallFrames :
                  LET bytes == call.result.pd.staging.files[f].bytes
                  IN  bytes[1] = "batch" /\ bytes[2] = call.result.batch

\* The second call, staging being newer than both batch folders, of which the newer
\* one is listed first.
C18_Witness ==
    /\ CallStaged /\ call.step = 2
    /\ Len(CallBatches) = 2
    /\ CallBatches[1].mtime > CallBatches[2].mtime
    /\ call.args.pd.staging.exists = FALSE
    /\ call.result.pd.staging.mtime > CallBatches[1].mtime
    /\ call.result.batch = CallBatches[1].id

\* C19: of the batch folders that share the greatest modification time, the stager
\* selects the one listed last.
C19_LastOfTies ==
    (call.fn = "stage_from_latest_run" /\ call.step >= 1 /\ CallBatches # <<>>) =>
        \E i \in 1..Len(CallBatches) :
            /\ CallBatches[i].id = call.result.batch
            /\ CallNewest(i)
            /\ \A j \in 1..Len(CallBatches) : CallNewest(j) => j <= i

\* The i-th PNG file of the selected batch in the order of the names, from 0.
CallSorted(i) ==
    CHOOSE n \in CallSourcePngs :
        Cardinality({m \in CallSourcePngs : NameLess(m, n)}) = i

\* C20: staged frame i holds the bytes of the i-th PNG file of the batch in the order
\* of the names, and every held frame the bytes of the last one, in both hold modes.
C20_Renumbering ==
    CallStaged =>
        LET files == call.result.pd.staging.files
            n == Cardinality(CallSourcePngs)
        IN  \A f \in CallFrames :
                \E i \in 0..(Cardinality(CallFrames) - 1) :
                    /\ f = FrameName(i)
                    /\ files[f].bytes = CallSource[CallSorted(IF i < n THEN i ELSE n - 1)].bytes

\* Two frames and held frames, in mode "hardlink" with links.
C20_Witness ==
    /\ CallStaged
    /\ Cardinality(CallSourcePngs) = 2
    /\ Cardinality(CallFrames) > 3
    /\ call.args.hold_mode = "hardlink" /\ call.args.linkable

MaxFrames == 1002

\* The numbers of staged frames, source frames and hold frames together.
FrameCounts == {1, 2, 11, 12, 101, 102, 1000, MaxFrames - 1, MaxFrames}

\* The frames whose place in the copy sequence is looked at.
ProbeFrames == {0, 1, 2, 9, 10, 11, 99, 100, 101, 110, 999, 1000, 1001, 1002}

\* The frame names that the stager wrote for n frames: frame_{i:03d}.png, i < n.
StagedNames(n) == {FrameName(i) : i \in 0..(n - 1)}

\* The place (from 1) of name in sorted(names): one more than the number of the
\* names that Path.__lt__ puts before it.
CopyPosition(names, name) == 1 + Cardinality({m \in names : NameLess(m, name)})

InitOrder ==
    /\ canon = CanonIdle
    /\ locate = LocateIdle
    /\ call \in {[CallIdle EXCEPT !.fn = "publish",
                                  !.args = a,
                                  !.result = [pos |-> 0, manifest |-> 0]] :
                    a \in {b \in [frames : FrameCounts, probe : ProbeFrames] :
                              b.probe < b.frames}}
    /\ InitWith({<<>>}, {})

\* deploy_latest_frames lines 170-184 over a staging folder of call.args.frames
\* frames: the turn of the loop that copies the probed frame, and the place of the
\* manifest copy, which comes after the loop.
PublishOrder ==
    /\ call.fn = "publish"
    /\ call.step = 0
    /\ call' = [call EXCEPT
                   !.step = 1,
                   !.result = [pos |-> CopyPosition(StagedNames(call.args.frames),
                                                    FrameName(call.args.probe)),
                               manifest |-> call.args.frames + 1]]
    /\ UNCHANGED <<canon, locate, deployVars>>

NextOrder == PublishOrder

SpecOrder == InitOrder /\ [][NextOrder]_vars

\* C22: the publication copies the staged frames in ascending numeric frame index,
\* for every number of frames, more than 1000 included: frame i is the (i + 1)-th
\* copy, and the manifest is copied after all the frames.
C22_NumericOrder ==
    (call.fn = "publish" /\ call.step = 1) =>
        /\ call.result.pos = call.args.probe + 1
        /\ call.result.manifest > call.args.frames

(***************************************************************************)
(* main() as a process that is scheduled: a run that has started goes on   *)
(* with its next step (SpecLive).                                          *)
(***************************************************************************)
\* The steps of main() after its start: the turn of the loop for the view at idx,
\* or the summary.
MainStep ==
    \/ ViewKeyError
    \/ SkipView
    \/ \E linkable \in BOOLEAN, fault \in FaultPool : DeployView(linkable, fault)
    \/ Finish

\* The runs whose progress is followed: batches of two PNG files and a manifest,
\* and every option set, link outcome and fault of Next.
NextLive ==
    \/ \E p \in ParentNames, shape \in {sh \in MainShapes : Cardinality(sh.pngs) = 2} :
          Acquire(p, shape, TRUE, Len(parents[p].batches))
    \/ \E opts \in MainOpts :
          StartRun([k \in DeployKeys |->
                       OptsRead(effective_opts(k, load_runtime_cfg(
                                                      JsonFile([defaults |-> opts])),
                                               NoEnv))])
    \/ MainStep

\* A step of MainStep, told by what each of them does: the loop moves to the next
\* view (idx), or the run ends in the summary or in an exception (pc).  It can be
\* taken exactly when a run is under way.
MainStepTaken ==
    /\ pc = "running"
    /\ pc' \in {"running", "done", "crashed"}
    /\ idx' \in 0..(Len(views) + 1)
    /\ (pc' # pc \/ idx' # idx)

\* main() is one thread whose every step is a bounded number of file operations:
\* a step that can be taken is taken.
SpecLive == Init /\ [][NextLive]_vars /\ WF_<<pc, idx>>(MainStepTaken)

\* C23: a run attempts the views one at a time in list order, each once: the step
\* taken is that of the view at idx, a step that ends in success, skip or reported
\* miss adds one entry to the report and moves to the next view, and the summary
\* comes only after the last view; and every run that has started and whose steps
\* do not raise reaches the summary.
C23_SequentialRun ==
    /\ [][(ev'.kind \in {"deploy", "skip", "keyerror"}) =>
             /\ pc = "running"
             /\ ev'.i = idx
             /\ Len(report) = idx - 1
             /\ pc' = "running" => (idx' = idx + 1 /\ Len(report') = idx)
             /\ pc' # "running" => pc' = "crashed"]_vars
    /\ [][ev'.kind = "finish" =>
             (pc = "running" /\ idx = Len(views) + 1 /\ Len(report) = Len(views))]_vars
    /\ (pc = "running") ~> (pc = "done" \/ pc = "crashed")

\* The summary of a second run over three views.
C23_Witness ==
    /\ ev.kind = "finish" /\ pc = "done"
    /\ Len(views) = 3
    /\ runs = 2

\* C24: a deployment that ends in a lookup miss or a staging miss (no source folder,
\* no batch, or a latest batch without PNG files) is reported as failed for its
\* view and the run goes on; every project folder, the materials and the manifest
\* of the view's own project included, is as it was, also under clean_materials;
\* and so is the parent folder, staging included, of every other view.
C24_MissLeavesTarget ==
    [][(ev'.kind = "deploy" /\ ev'.outcome \in {"nosource", "nobatch", "nopng"}) =>
          /\ projects' = projects
          /\ \A p \in ParentNames \ {ev'.parent} : parents'[p] = parents[p]
          /\ report' = Append(report, ev'.outcome)
          /\ pc' = "running" /\ idx' = idx + 1]_vars

\* A latest batch without PNG files, under clean_materials and not stage_only, for
\* a project whose materials hold the frames that an earlier run published.
C24_Witness ==
    /\ ev.kind = "deploy" /\ ev.outcome = "nopng"
    /\ ev.opts.clean_materials /\ ~ev.opts.stage_only
    /\ projects[ev.proj].materials
    /\ FrameName(0) \in DOMAIN projects[ev.proj].mfiles
    /\ ev.had > 0

\* The batches of parent folder p of greatest modification time.
NewestBatches(p) ==
    {i \in 1..Len(parents[p].batches) :
        \A j \in 1..Len(parents[p].batches) :
            parents[p].batches[j].mtime <= parents[p].batches[i].mtime}

C26_PublishAdds ==
    [][(ev'.kind = "deploy" /\ ev'.outcome = "published" /\ ~ev'.opts.clean_materials) =>
          LET old == projects[ev'.proj].mfiles
              new == projects'[ev'.proj].mfiles
              staged == parents'[ev'.parent].staging.files
              frames == {n \in DOMAIN staged : IsFramePng(n)}
          IN  /\ DOMAIN new = DOMAIN old \cup frames
              /\ \A n \in frames : new[n].bytes = staged[n].bytes
              /\ \A n \in DOMAIN old \ frames : new[n] = old[n]]_vars

\* A publication without clean of one frame over materials that hold the two frames
\* of an older batch: frame_001.png keeps the bytes of the older batch.
C26_Witness ==
    /\ ev.kind = "deploy" /\ ev.outcome = "published" /\ ~ev.opts.clean_materials
    /\ StagedFrames(ev.parent) = {FrameName(0)}
    /\ FrameName(1) \in DOMAIN projects[ev.proj].mfiles
    /\ projects[ev.proj].mfiles[FrameName(1)].bytes[1] = "batch"
    /\ projects[ev.proj].mfiles[FrameName(1)].bytes[2] # ev.batch
    /\ projects[ev.proj].mfiles[FrameName(0)].bytes[2] = ev.batch

(***************************************************************************)
(* The frame count of the environment through effective_opts and the       *)
(* stager (SpecOpts).                                                      *)
(***************************************************************************)
\* The held frames that the stager appended after the resolution.
ResolvedHeld ==
    Cardinality({n \in DOMAIN call.result.staged.pd.staging.files : IsFramePng(n)})
        - call.result.staged.n

\* C27: with HOLD_LAST_FRAMES an integer F, resolving the options and then staging
\* appends exactly F held frames when F >= 0 and the resolved fps is at least 0.1,
\* and no held frame when F is negative.
C27_RoundTrip ==
    (/\ call.fn = "effective_opts" /\ call.step = 2
     /\ ParseInt(call.args.env.hold_last).ok) =>
        LET F == ParseInt(call.args.env.hold_last).value
            fps == OptsRead(call.result.opts).fps
        IN  /\ call.result.staged.outcome = "staged"
            /\ (F >= 0 /\ fps >= 1) => ResolvedHeld = F
            /\ F < 0 => ResolvedHeld = 0

\* The views of the pool that have a key and a source folder.
SourcedViews == {v \in ViewPool : ~build_view_key_raises(v) /\ ViewSource[v].found}

\* Over every listing of an output root of at most MaxChildren entries with drifted
\* names: two views of different keys that both find a folder find different ones.
LookupsApart ==
    \A r \in LocateRoots : \A v, w \in LocateViews :
        LET k == build_view_key(v)
            l == build_view_key(w)
            a == find_parent_dir_for_key(r, k)
            b == find_parent_dir_for_key(r, l)
        IN  (k # l /\ a.found /\ b.found) => a.name # b.name

\* C28: two views with different canonical keys never resolve to the same source
\* folder, and the deployment of a view leaves the parent folder, staging included,
\* of every view with a different key as it was.
C28_StagingScope ==
    /\ [](/\ \A v, w \in SourcedViews :
                ViewKey[v] # ViewKey[w] => ViewSource[v].name # ViewSource[w].name
          /\ LookupsApart)
    /\ [][ev'.kind = "deploy" =>
             \A w \in SourcedViews :
                 ViewKey[w] # ViewKey[views[idx]] =>
                     parents'[ViewSource[w].name] = parents[ViewSource[w].name]]_vars

\* The third view of a list staged its frames while the parent folder of the first,
\* under another key, holds the frames that its own deployment staged.
C28_Witness ==
    /\ ev.kind = "deploy" /\ ev.staged /\ ev.i = 3
    /\ ViewKey[views[1]] # ViewKey[views[3]]
    /\ views[1] \in SourcedViews
    /\ ViewSource[views[1]].name # ev.parent
    /\ StagedFrames(ViewSource[views[1]].name) # {}
    /\ StagedFrames(ev.parent) # {}

====
